---- MODULE Spec2Model ----
(***************************************************************************)
(* The event pipeline of pkg/ebpf/events_pipeline.go:                      *)
(*   decodeEvents -> [queueEvents] -> processEvents -> deriveEvents ->     *)
(*   sinkEvents, with WaitForPipeline waiting for the per-stage error      *)
(*   channels.  The sorter, the enricher and the engine are collaborators  *)
(*   outside this file and are configured off.                             *)
(*                                                                         *)
(* A 64-bit MatchedScopes bitmap is the set of its set bit offsets         *)
(* (a subset of 0..63): HasBit is membership, ClearBit is set difference,  *)
(* `&` is intersection and "!= 0" is "non-empty".                          *)
(***************************************************************************)
EXTENDS Integers, Sequences, FiniteSets, TLC

(***************************************************************************)
(* Bounds of the model.                                                    *)
(***************************************************************************)
\* error channels handed to MergeErrors
MaxErrChans == 2
\* errors the owner of one error channel sends on it
MaxErrsPerChan == 2
\* raw records the probe side puts on the source channel in one run
MaxRecords == 2
\* capacity the buffered inter-stage channels are given in the model
\* (make(chan *trace.Event, 10000) in the code)
ChanCap == 2
\* capacity of the bounded FIFO behind t.config.Cache
QueueCap == 1
\* longest run of non-zero words a stack-table value starts with
MaxStackWords == 22

(***************************************************************************)
(* Program constants.                                                      *)
(***************************************************************************)
maxStackDepth == 20

\* the scopes of the example in computeScopes:
\*   -t 59:comm=who -t '59:pid>100' -t '59:pid<1257738'
\*   -t 30:comm=who -t '30:pid>502000' -t '30:pid<505000'
ScopeWide == 59
ScopeNarrow == 30
PidMinWide == 100
PidMaxWide == 1257738
PidMinNarrow == 502000
PidMaxNarrow == 505000
\* a third scope, with a container filter, a UID filter, a return-value
\* filter and an argument filter
ScopeContainer == 7
UidMinContainer == 1000
UidMaxContainer == 2000

\* t.config.FilterScopes.Map(): the configured scopes
FilterScopes == {ScopeContainer, ScopeNarrow, ScopeWide}

\* events.ID values the pipeline names, and the others of the configuration
CgroupMkdir == "cgroup_mkdir"
CgroupRmdir == "cgroup_rmdir"
SymbolsLoaded == "symbols_loaded"
SharedObjectLoaded == "shared_object_loaded"
PrintMemDump == "print_mem_dump"
Execve == "execve"
ContainerCreate == "container_create"
SymbolsCollision == "symbols_collision"
UnknownID == "unknown"

\* events.Definitions.GetSafe(eventId): the ids the registry knows
Definitions ==
    {CgroupMkdir, CgroupRmdir, SymbolsLoaded, SharedObjectLoaded, PrintMemDump,
     Execve, ContainerCreate, SymbolsCollision}

\* t.eventDerivations: base event id -> ids of the events derived from it
eventDerivations ==
    [id \in {CgroupMkdir, SharedObjectLoaded} |->
        IF id = CgroupMkdir THEN <<ContainerCreate>>
        ELSE <<SymbolsLoaded, SymbolsCollision>>]

\* t.events[id].emit: the scopes that asked to see event id at the output
emit ==
    [id \in Definitions |->
        CASE id = Execve -> {ScopeContainer, ScopeNarrow, ScopeWide}
          [] id = CgroupMkdir -> {}
          [] id = CgroupRmdir -> {ScopeContainer}
          [] id = ContainerCreate -> {ScopeWide}
          [] id = SharedObjectLoaded -> {ScopeNarrow, ScopeWide}
          [] id = SymbolsLoaded -> {ScopeNarrow}
          [] id = SymbolsCollision -> {ScopeWide}
          [] OTHER -> {}]

\* t.config.FilterScopes.ContainerFilterEnabled(): bitmap of the scopes
\* whose container filter is enabled
ContainerFilterEnabled == {ScopeContainer}

(***************************************************************************)
(* The filters of a scope (pkg/filters, called from computeScopes).        *)
(***************************************************************************)
\* filterScope.ContextFilter.Filter(*event)
ContextFilter(s, event) ==
    IF s \in {ScopeNarrow, ScopeWide} THEN event.ProcessName = "who" ELSE TRUE

\* filterScope.RetFilter.Filter(eventID, retval)
RetFilter(s, eventID, ret) ==
    IF s = ScopeContainer /\ eventID = Execve THEN ret = 0 ELSE TRUE

\* filterScope.ArgFilter.Filter(eventID, args)
ArgFilter(s, eventID, args) ==
    IF s = ScopeContainer /\ eventID = Execve
    THEN \A i \in 1..Len(args) : args[i] # "deny"
    ELSE TRUE

\* filterScope.UIDFilter.Enabled()
UIDFilterEnabled(s) == s = ScopeContainer

\* filterScope.UIDFilter.InMinMaxRange(uid)
UIDInMinMaxRange(s, uid) == UidMinContainer <= uid /\ uid <= UidMaxContainer

\* filterScope.PIDFilter.Enabled()
PIDFilterEnabled(s) == s \in {ScopeNarrow, ScopeWide}

\* filterScope.PIDFilter.InMinMaxRange(pid): 'pid>min' and 'pid<max'
PIDInMinMaxRange(s, pid) ==
    IF s = ScopeNarrow THEN PidMinNarrow < pid /\ pid < PidMaxNarrow
    ELSE PidMinWide < pid /\ pid < PidMaxWide

\* what one scope does to its bit in the loop body of computeScopes:
\* TRUE when the bit is cleared
ScopeRejects(s, event) ==
    \/ ~ContextFilter(s, event)
    \/ ~RetFilter(s, event.EventID, event.ReturnValue)
    \/ ~ArgFilter(s, event.EventID, event.Args)
    \/ (UIDFilterEnabled(s) /\ ~UIDInMinMaxRange(s, event.UserID))
    \/ (PIDFilterEnabled(s) /\ ~PIDInMinMaxRange(s, event.HostProcessID))

\* computeScopes without its HasBit test, an accepting scope setting its bit
computeScopesSetsBits(event) ==
    {s \in event.MatchedScopes : ~(s \in FilterScopes /\ ScopeRejects(s, event))}
        \cup {s \in FilterScopes : ~ScopeRejects(s, event)}

\* computeScopes with the bit of a rejecting scope flipped, not cleared,
\* whether or not the event carries it
computeScopesFlipsBits(event) ==
    LET rejecting == {s \in FilterScopes : ScopeRejects(s, event)}
    IN  (event.MatchedScopes \ rejecting) \cup (rejecting \ event.MatchedScopes)

\* computeScopes: the bits of MatchedScopes whose scope does not reject
computeScopes(event) ==
    {s \in event.MatchedScopes : ~(s \in FilterScopes /\ ScopeRejects(s, event))}

\* shouldProcessEvent: the event with MatchedScopes replaced, and the verdict
shouldProcessEvent(event) ==
    LET e == [event EXCEPT !.MatchedScopes = computeScopes(event)]
    IN  [event |-> e, ok |-> e.MatchedScopes # {}]

(***************************************************************************)
(* Raw records (the byte records of t.eventsChannel, by what decoding      *)
(* finds in them) and events (trace.Event).                                *)
(***************************************************************************)
\* a record every stage lets through: pid 150 with the kernel bits {30,59}
BaseRecord ==
    [hdrOk |-> TRUE, EventID |-> Execve,
     MatchedScopes |-> {ScopeNarrow, ScopeWide},
     HostPid |-> 150, Uid |-> 1000, Comm |-> "who", Retval |-> 0,
     ContainerId |-> "c1", argsBuf |-> <<"ok">>,
     sideErrs |-> 0, parseErr |-> FALSE]

\* the records the probe side may send.  hdrOk: DecodeContext succeeds;
\* argsBuf: one entry per argument the header announces (Argnum), "bad"
\* where ReadArgFromBuff fails; ContainerId: what GetCgroupInfo answers;
\* sideErrs: the errors processEvent returns for the event; parseErr:
\* whether parseArguments fails on it.
RawRecords ==
    { BaseRecord,
      [BaseRecord EXCEPT !.Comm = "ls"],
      [BaseRecord EXCEPT !.EventID = SharedObjectLoaded],
      [BaseRecord EXCEPT !.EventID = SharedObjectLoaded, !.Comm = "ls"],
      [BaseRecord EXCEPT !.EventID = SharedObjectLoaded, !.Comm = "ls",
                         !.MatchedScopes = {ScopeContainer, ScopeNarrow, ScopeWide}],
      [BaseRecord EXCEPT !.EventID = CgroupMkdir, !.ContainerId = "",
                         !.MatchedScopes = {ScopeContainer, ScopeWide}],
      [BaseRecord EXCEPT !.hdrOk = FALSE],
      [BaseRecord EXCEPT !.EventID = UnknownID],
      [BaseRecord EXCEPT !.EventID = SharedObjectLoaded,
                         !.argsBuf = <<"bad", "ok">>],
      [BaseRecord EXCEPT !.ContainerId = "",
                         !.MatchedScopes = {ScopeContainer, ScopeWide}],
      [BaseRecord EXCEPT !.ContainerId = "", !.MatchedScopes = {ScopeContainer}],
      [BaseRecord EXCEPT !.sideErrs = 2],
      [BaseRecord EXCEPT !.parseErr = TRUE] }

\* "no event": the value of an unused cell
NoEvent == [EventID |-> "none"]

\* pointers: the address of a decoded event is the number of its record;
\* "dv" is the address of the loop variable `derivative` of deriveEvents
NilRef == [k |-> "nil", a |-> 0]
OrigRef(rec) == [k |-> "orig", a |-> rec]
DvRef == [k |-> "dv", a |-> 0]

\* args = append(args, ...) for every argument that decodes
DecodedArgs(buf) == SelectSeq(buf, LAMBDA x : x # "bad")

\* the handleError calls of the argument loop
ArgErrors(buf) == Cardinality({i \in 1..Len(buf) : buf[i] = "bad"})

\* the trace.Event literal of decodeEvents.  rec (the record's number),
\* der (0 for a decoded event, k for the k-th derivative) and orig (the
\* bitmap the event entered the pipeline with) are history fields.
NewEvent(raw, rec) ==
    [rec |-> rec, der |-> 0, orig |-> raw.MatchedScopes,
     EventID |-> raw.EventID, MatchedScopes |-> raw.MatchedScopes,
     HostProcessID |-> raw.HostPid, UserID |-> raw.Uid,
     ProcessName |-> raw.Comm, ReturnValue |-> raw.Retval,
     ContainerID |-> raw.ContainerId,
     ArgsNum |-> Len(raw.argsBuf), Args |-> DecodedArgs(raw.argsBuf),
     sideErrs |-> raw.sideErrs, parseErr |-> raw.parseErr]

\* the loop body with the first-pass filter applied to every event,
\* derivation bases included
DecodeRecordFiltersBases(raw, rec) ==
    IF ~raw.hdrOk \/ raw.EventID \notin Definitions
    THEN [what |-> "error", errs |-> 1, event |-> NoEvent]
    ELSE LET r == shouldProcessEvent(NewEvent(raw, rec))
         IN  IF r.ok
             THEN [what |-> "send", errs |-> ArgErrors(raw.argsBuf), event |-> r.event]
             ELSE [what |-> "filtered", errs |-> ArgErrors(raw.argsBuf),
                   event |-> NoEvent]

\* one iteration of the loop of decodeEvents up to its select:
\* what happens to the record, the errors handled, and the event
DecodeRecord(raw, rec) ==
    IF ~raw.hdrOk \/ raw.EventID \notin Definitions
    THEN [what |-> "error", errs |-> 1, event |-> NoEvent]
    ELSE LET evt == NewEvent(raw, rec)
             errs == ArgErrors(raw.argsBuf)
         IN  IF evt.EventID \in DOMAIN eventDerivations
             THEN [what |-> "send", errs |-> errs, event |-> evt]
             ELSE LET r == shouldProcessEvent(evt)
                  IN  IF r.ok
                      THEN [what |-> "send", errs |-> errs, event |-> r.event]
                      ELSE [what |-> "filtered", errs |-> errs, event |-> NoEvent]

(***************************************************************************)
(* State.                                                                  *)
(***************************************************************************)
VARIABLES
    cancelled,     \* ctx.Done() is closed
    cacheEnabled,  \* t.config.Cache != nil: the queue stage is started
    chans,         \* contents of the buffered channels, by owner
    closed,        \* which channels are closed
    pc,            \* where each worker goroutine is
    local,         \* the event pointer each worker holds
    heap,          \* the decoded events, by address
    fifo,          \* the FIFO behind t.config.Cache
    done,          \* queueEvents' done channel holds its token
    eventCopy,     \* deriveEvents: eventCopy
    derivatives,   \* deriveEvents: derivatives
    drvIdx,        \* deriveEvents: position of the range loop
    derivative,    \* deriveEvents: the loop variable
    ChanEvents,    \* every event sent on t.config.ChanEvents, in order
    stats,         \* t.stats
    hist,          \* history counters
    sinkSawDone,   \* sinkEvents took its <-ctx.Done() case
    waitDone,      \* WaitForPipeline has returned
    stack,         \* a call of getStackAddresses: its argument and locals
    sinkId,        \* sinkEvents: id
    merge,         \* MergeErrors: its channels, goroutines and reader
    filt           \* shouldProcessEvent called on an event, and on its result

vars ==
    <<cancelled, cacheEnabled, chans, closed, pc, local, heap, fifo, done,
      eventCopy, derivatives, drvIdx, derivative, ChanEvents, stats, hist,
      sinkSawDone, waitDone, stack, sinkId, merge, filt>>

Workers == {"decode", "queueIn", "queueOut", "process", "derive", "sink"}
Channels == {"source", "decode", "queue", "process", "derive"}

\* no call of getStackAddresses is under way
NoStackCall ==
    [pc |-> "none", found |-> FALSE, stackBytes |-> <<>>, i |-> 0,
     stackCounter |-> 0, StackAddresses |-> <<>>, result |-> <<>>]

PipelineInit ==
    /\ cancelled = FALSE
    /\ cacheEnabled \in BOOLEAN
    /\ chans = [c \in Channels |-> <<>>]
    /\ closed = [c \in Channels |-> FALSE]
    /\ pc = [w \in Workers |->
                CASE w = "decode" -> "recv"
                  [] w = "queueIn" -> IF cacheEnabled THEN "select" ELSE "off"
                  [] w = "queueOut" -> IF cacheEnabled THEN "select" ELSE "off"
                  [] w = "process" -> "recv"
                  [] w = "derive" -> "select"
                  [] OTHER -> "recv"]
    /\ local = [w \in Workers |-> NilRef]
    /\ heap = [a \in 1..MaxRecords |-> NoEvent]
    /\ fifo = <<>>
    /\ done = FALSE
    /\ eventCopy = NoEvent
    /\ derivatives = <<>>
    /\ drvIdx = 0
    /\ derivative = NoEvent
    /\ ChanEvents = <<>>
    /\ stats = [EventCount |-> 0, EventsFiltered |-> 0, ErrorCount |-> 0]
    /\ hist = [fed |-> 0, consumed |-> 0, derived |-> 0, errDrops |-> 0,
               containerDrops |-> 0, emitDrops |-> 0, nilSpins |-> FALSE,
               queued |-> <<>>, processed |-> <<>>, sentDv |-> NoEvent]
    /\ sinkSawDone = FALSE
    /\ waitDone = FALSE
    /\ sinkId = "none"

\* shouldProcessEvent is not being exercised on its own
NoFilterCall == [pc |-> "none", event |-> NoEvent, once |-> NoEvent, okOnce |-> FALSE,
                 twice |-> NoEvent, okTwice |-> FALSE]

\* MergeErrors is not being exercised on its own
NoMerge == [on |-> FALSE]

Init == PipelineInit /\ stack = NoStackCall /\ filt = NoFilterCall /\ merge = NoMerge

\* t.handleError, n times
handleError(n) == [stats EXCEPT !.ErrorCount = @ + n]

\* a rejection that forgets the counter
EventsFilteredForgotten(st) == st

\* t.stats.EventsFiltered.Increment()
EventsFilteredIncrement(st) == [st EXCEPT !.EventsFiltered = @ + 1]

\* a send that puts the value ahead of those the channel already holds
SendOnFront(ch, ref) ==
    IF Len(ch) < ChanCap THEN [blocked |-> FALSE, ch |-> <<ref>> \o ch]
    ELSE [blocked |-> TRUE, ch |-> ch]

\* a send on a buffered channel: it blocks while the channel is full
SendOn(ch, ref) ==
    IF Len(ch) < ChanCap THEN [blocked |-> FALSE, ch |-> Append(ch, ref)]
    ELSE [blocked |-> TRUE, ch |-> ch]

(***************************************************************************)
(* The environment: the probe side, the context, the output's reader.      *)
(***************************************************************************)
\* the probe side sends a record on t.eventsChannel
SourceSend ==
    /\ ~closed["source"]
    /\ hist.fed < MaxRecords
    /\ Len(chans["source"]) < ChanCap
    /\ \E raw \in RawRecords :
          chans' = [chans EXCEPT !["source"] = Append(@, raw)]
    /\ hist' = [hist EXCEPT !.fed = @ + 1]
    /\ UNCHANGED <<cancelled, cacheEnabled, closed, pc, local, heap, fifo,
                   done, eventCopy, derivatives, drvIdx, derivative,
                   ChanEvents, stats, sinkSawDone, waitDone, stack, sinkId,
                   merge, filt>>

\* the probe side closes t.eventsChannel
SourceClose ==
    /\ ~closed["source"]
    /\ closed' = [closed EXCEPT !["source"] = TRUE]
    /\ UNCHANGED <<cancelled, cacheEnabled, chans, pc, local, heap, fifo,
                   done, eventCopy, derivatives, drvIdx, derivative,
                   ChanEvents, stats, hist, sinkSawDone, waitDone, stack,
                   sinkId, merge, filt>>

\* the context is cancelled
Cancel ==
    /\ ~cancelled
    /\ cancelled' = TRUE
    /\ UNCHANGED <<cacheEnabled, chans, closed, pc, local, heap, fifo, done,
                   eventCopy, derivatives, drvIdx, derivative, ChanEvents,
                   stats, hist, sinkSawDone, waitDone, stack, sinkId, merge,
                   filt>>

(***************************************************************************)
(* decodeEvents                                                            *)
(***************************************************************************)
\* for dataRaw := range sourceChan, one record: decode it, filter it, and
\* either go on with the next record or stand at the select with &evt
DecodeReceive ==
    /\ pc["decode"] = "recv"
    /\ chans["source"] # <<>>
    /\ LET raw == Head(chans["source"])
           rec == hist.consumed + 1
           d == DecodeRecord(raw, rec)
       IN  /\ chans' = [chans EXCEPT !["source"] = Tail(@)]
           /\ stats' = IF d.what = "filtered"
                       THEN EventsFilteredIncrement(handleError(d.errs))
                       ELSE handleError(d.errs)
           /\ hist' = [hist EXCEPT !.consumed = rec,
                                   !.errDrops = @ + (IF d.what = "error" THEN 1 ELSE 0)]
           /\ heap' = [heap EXCEPT ![rec] = d.event]
           /\ IF d.what = "send"
              THEN /\ pc' = [pc EXCEPT !["decode"] = "send"]
                   /\ local' = [local EXCEPT !["decode"] = OrigRef(rec)]
              ELSE UNCHANGED <<pc, local>>
    /\ UNCHANGED <<cancelled, cacheEnabled, closed, fifo, done, eventCopy,
                   derivatives, drvIdx, derivative, ChanEvents, sinkSawDone,
                   waitDone, stack, sinkId, merge, filt>>

\* select { case out <- &evt: }
DecodeSend ==
    /\ pc["decode"] = "send"
    /\ Len(chans["decode"]) < ChanCap
    /\ chans' = [chans EXCEPT !["decode"] = Append(@, local["decode"])]
    /\ pc' = [pc EXCEPT !["decode"] = "recv"]
    /\ local' = [local EXCEPT !["decode"] = NilRef]
    /\ UNCHANGED <<cancelled, cacheEnabled, closed, heap, fifo, done,
                   eventCopy, derivatives, drvIdx, derivative, ChanEvents,
                   stats, hist, sinkSawDone, waitDone, stack, sinkId, merge,
                   filt>>

\* select { case <-outerCtx.Done(): return }, with the deferred closes
DecodeCancel ==
    /\ pc["decode"] = "send"
    /\ cancelled
    /\ pc' = [pc EXCEPT !["decode"] = "done"]
    /\ closed' = [closed EXCEPT !["decode"] = TRUE]
    /\ UNCHANGED <<cancelled, cacheEnabled, chans, local, heap, fifo, done,
                   eventCopy, derivatives, drvIdx, derivative, ChanEvents,
                   stats, hist, sinkSawDone, waitDone, stack, sinkId, merge,
                   filt>>

\* the range loop ends: sourceChan is closed and drained
DecodeClosed ==
    /\ pc["decode"] = "recv"
    /\ chans["source"] = <<>>
    /\ closed["source"]
    /\ pc' = [pc EXCEPT !["decode"] = "done"]
    /\ closed' = [closed EXCEPT !["decode"] = TRUE]
    /\ UNCHANGED <<cancelled, cacheEnabled, chans, local, heap, fifo, done,
                   eventCopy, derivatives, drvIdx, derivative, ChanEvents,
                   stats, hist, sinkSawDone, waitDone, stack, sinkId, merge,
                   filt>>

decodeEvents == DecodeReceive \/ DecodeSend \/ DecodeCancel \/ DecodeClosed

(***************************************************************************)
(* queueEvents: two workers around the FIFO of t.config.Cache.  Enqueue    *)
(* blocks while the FIFO is full, Dequeue blocks while it is empty.        *)
(***************************************************************************)
\* Cache.Enqueue(event) once there is room
Enqueue(q, ref) == Append(q, ref)

\* draining-in worker: select { case event := <-in: }, an event received
QueueInReceive ==
    /\ pc["queueIn"] = "select"
    /\ chans["decode"] # <<>>
    /\ local' = [local EXCEPT !["queueIn"] = Head(chans["decode"])]
    /\ chans' = [chans EXCEPT !["decode"] = Tail(@)]
    /\ pc' = [pc EXCEPT !["queueIn"] = "enqueue"]
    /\ hist' = [hist EXCEPT !.queued = Append(@, Head(chans["decode"]))]
    /\ UNCHANGED <<cancelled, cacheEnabled, closed, heap, fifo, done,
                   eventCopy, derivatives, drvIdx, derivative, ChanEvents,
                   stats, sinkSawDone, waitDone, stack, sinkId, merge, filt>>

\* draining-in worker: the receive from a closed and drained `in` yields
\* nil, which is not enqueued; the loop goes round
QueueInNil ==
    /\ pc["queueIn"] = "select"
    /\ chans["decode"] = <<>>
    /\ closed["decode"]
    /\ hist' = [hist EXCEPT !.nilSpins = TRUE]
    /\ UNCHANGED <<cancelled, cacheEnabled, chans, closed, pc, local, heap,
                   fifo, done, eventCopy, derivatives, drvIdx, derivative,
                   ChanEvents, stats, sinkSawDone, waitDone, stack, sinkId,
                   merge, filt>>

\* draining-in worker: t.config.Cache.Enqueue(event) returns
QueueInEnqueue ==
    /\ pc["queueIn"] = "enqueue"
    /\ Len(fifo) < QueueCap
    /\ fifo' = Enqueue(fifo, local["queueIn"])
    /\ local' = [local EXCEPT !["queueIn"] = NilRef]
    /\ pc' = [pc EXCEPT !["queueIn"] = "select"]
    /\ UNCHANGED <<cancelled, cacheEnabled, chans, closed, heap, done,
                   eventCopy, derivatives, drvIdx, derivative, ChanEvents,
                   stats, hist, sinkSawDone, waitDone, stack, sinkId, merge,
                   filt>>

\* draining-in worker: case <-ctx.Done(): done <- struct{}{}; return
QueueInCancel ==
    /\ pc["queueIn"] = "select"
    /\ cancelled
    /\ done' = TRUE
    /\ pc' = [pc EXCEPT !["queueIn"] = "done"]
    /\ UNCHANGED <<cancelled, cacheEnabled, chans, closed, local, heap, fifo,
                   eventCopy, derivatives, drvIdx, derivative, ChanEvents,
                   stats, hist, sinkSawDone, waitDone, stack, sinkId, merge,
                   filt>>

\* draining-out worker: select takes default (done holds nothing) and
\* calls t.config.Cache.Dequeue()
QueueOutDefault ==
    /\ pc["queueOut"] = "select"
    /\ ~done
    /\ pc' = [pc EXCEPT !["queueOut"] = "dequeue"]
    /\ UNCHANGED <<cancelled, cacheEnabled, chans, closed, local, heap, fifo,
                   done, eventCopy, derivatives, drvIdx, derivative,
                   ChanEvents, stats, hist, sinkSawDone, waitDone, stack,
                   sinkId, merge, filt>>

\* draining-out worker: Dequeue returns the oldest event
QueueOutDequeue ==
    /\ pc["queueOut"] = "dequeue"
    /\ fifo # <<>>
    /\ local' = [local EXCEPT !["queueOut"] = Head(fifo)]
    /\ fifo' = Tail(fifo)
    /\ pc' = [pc EXCEPT !["queueOut"] = "send"]
    /\ UNCHANGED <<cancelled, cacheEnabled, chans, closed, heap, done,
                   eventCopy, derivatives, drvIdx, derivative, ChanEvents,
                   stats, hist, sinkSawDone, waitDone, stack, sinkId, merge,
                   filt>>

\* a send that gives up, and loses the event, unless `out` is empty
QueueOutForwardLossy(ch, ref) ==
    [blocked |-> FALSE, ch |-> IF ch = <<>> THEN Append(ch, ref) ELSE ch]

\* out <- event of the draining-out worker
QueueOutForward(ch, ref) == SendOn(ch, ref)

\* draining-out worker: if event != nil { out <- event }
QueueOutSend ==
    /\ pc["queueOut"] = "send"
    /\ LET r == QueueOutForward(chans["queue"], local["queueOut"])
       IN  /\ ~r.blocked
           /\ chans' = [chans EXCEPT !["queue"] = r.ch]
    /\ local' = [local EXCEPT !["queueOut"] = NilRef]
    /\ pc' = [pc EXCEPT !["queueOut"] = "select"]
    /\ UNCHANGED <<cancelled, cacheEnabled, closed, heap, fifo, done,
                   eventCopy, derivatives, drvIdx, derivative, ChanEvents,
                   stats, hist, sinkSawDone, waitDone, stack, sinkId, merge,
                   filt>>

\* draining-out worker: case <-done: return, with the deferred closes
QueueOutDone ==
    /\ pc["queueOut"] = "select"
    /\ done
    /\ done' = FALSE
    /\ pc' = [pc EXCEPT !["queueOut"] = "done"]
    /\ closed' = [closed EXCEPT !["queue"] = TRUE]
    /\ UNCHANGED <<cancelled, cacheEnabled, chans, local, heap, fifo,
                   eventCopy, derivatives, drvIdx, derivative, ChanEvents,
                   stats, hist, sinkSawDone, waitDone, stack, sinkId, merge,
                   filt>>

queueEvents ==
    \/ QueueInReceive \/ QueueInNil \/ QueueInEnqueue \/ QueueInCancel
    \/ QueueOutDefault \/ QueueOutDequeue \/ QueueOutSend \/ QueueOutDone

(***************************************************************************)
(* processEvents                                                           *)
(***************************************************************************)
\* the channel handleEvents hands to processEvents
ProcessIn == IF cacheEnabled THEN "queue" ELSE "decode"

\* a ClearBits that keeps the bits of the mask and clears the others
ClearBitsKeepsMask(bitmap, mask) == bitmap \cap mask

\* utils.ClearBits(&event.MatchedScopes, scopesWithContainerFilter)
ClearBits(bitmap, mask) == bitmap \ mask

\* the body of the loop of processEvents up to its select
ProcessRecord(event) ==
    IF event.sideErrs > 0
    THEN [what |-> "error", errs |-> event.sideErrs, event |-> event]
    ELSE IF /\ ContainerFilterEnabled # {}
            /\ event.ContainerID = ""
            /\ event.EventID # CgroupMkdir
            /\ event.EventID # CgroupRmdir
         THEN LET e == [event EXCEPT !.MatchedScopes =
                                        ClearBits(@, ContainerFilterEnabled)]
              IN  [what |-> IF e.MatchedScopes = {} THEN "dropped" ELSE "send",
                   errs |-> 0, event |-> e]
         ELSE [what |-> "send", errs |-> 0, event |-> event]

\* for event := range in, one event
ProcessReceive ==
    /\ pc["process"] = "recv"
    /\ chans[ProcessIn] # <<>>
    /\ LET ref == Head(chans[ProcessIn])
           p == ProcessRecord(heap[ref.a])
       IN  /\ chans' = [chans EXCEPT ![ProcessIn] = Tail(@)]
           /\ heap' = [heap EXCEPT ![ref.a] = IF p.what = "send" THEN p.event
                                               ELSE NoEvent]
           /\ stats' = handleError(p.errs)
           /\ hist' = [hist EXCEPT
                         !.processed = Append(@, ref),
                         !.errDrops = @ + (IF p.what = "error" THEN 1 ELSE 0),
                         !.containerDrops = @ + (IF p.what = "dropped" THEN 1 ELSE 0)]
           /\ IF p.what = "send"
              THEN /\ pc' = [pc EXCEPT !["process"] = "send"]
                   /\ local' = [local EXCEPT !["process"] = ref]
              ELSE UNCHANGED <<pc, local>>
    /\ UNCHANGED <<cancelled, cacheEnabled, closed, fifo, done, eventCopy,
                   derivatives, drvIdx, derivative, ChanEvents, sinkSawDone,
                   waitDone, stack, sinkId, merge, filt>>

\* select { case out <- event: }
ProcessSend ==
    /\ pc["process"] = "send"
    /\ Len(chans["process"]) < ChanCap
    /\ chans' = [chans EXCEPT !["process"] = Append(@, local["process"])]
    /\ pc' = [pc EXCEPT !["process"] = "recv"]
    /\ local' = [local EXCEPT !["process"] = NilRef]
    /\ UNCHANGED <<cancelled, cacheEnabled, closed, heap, fifo, done,
                   eventCopy, derivatives, drvIdx, derivative, ChanEvents,
                   stats, hist, sinkSawDone, waitDone, stack, sinkId, merge,
                   filt>>

\* select { case <-ctx.Done(): return }, with the deferred closes
ProcessCancel ==
    /\ pc["process"] = "send"
    /\ cancelled
    /\ pc' = [pc EXCEPT !["process"] = "done"]
    /\ closed' = [closed EXCEPT !["process"] = TRUE]
    /\ UNCHANGED <<cancelled, cacheEnabled, chans, local, heap, fifo, done,
                   eventCopy, derivatives, drvIdx, derivative, ChanEvents,
                   stats, hist, sinkSawDone, waitDone, stack, sinkId, merge,
                   filt>>

\* the range loop ends: `in` is closed and drained
ProcessClosed ==
    /\ pc["process"] = "recv"
    /\ chans[ProcessIn] = <<>>
    /\ closed[ProcessIn]
    /\ pc' = [pc EXCEPT !["process"] = "done"]
    /\ closed' = [closed EXCEPT !["process"] = TRUE]
    /\ UNCHANGED <<cancelled, cacheEnabled, chans, local, heap, fifo, done,
                   eventCopy, derivatives, drvIdx, derivative, ChanEvents,
                   stats, hist, sinkSawDone, waitDone, stack, sinkId, merge,
                   filt>>

processEvents == ProcessReceive \/ ProcessSend \/ ProcessCancel \/ ProcessClosed

(***************************************************************************)
(* deriveEvents.  `out` is unbuffered: a send on it is one step with the   *)
(* receive of sinkEvents' range loop.                                      *)
(***************************************************************************)
\* the event a pointer points to
Deref(ref) == IF ref.k = "dv" THEN derivative ELSE heap[ref.a]

\* t.eventDerivations.DeriveEvent(eventCopy): every derivative is the copy
\* with the derived event's id; a base event that lost an argument gives an
\* error and no derivative
DeriveEvent(copy) ==
    IF copy.EventID \notin DOMAIN eventDerivations
    THEN [derivatives |-> <<>>, errors |-> 0]
    ELSE IF Len(copy.Args) < copy.ArgsNum
         THEN [derivatives |-> <<>>, errors |-> 1]
         ELSE LET ids == eventDerivations[copy.EventID]
              IN  [derivatives |->
                      [k \in 1..Len(ids) |->
                          [copy EXCEPT !.EventID = ids[k], !.der = k,
                                       !.orig = copy.MatchedScopes]],
                   errors |-> 0]

\* the body with `out <- event` moved behind the range loop
DeriveStepEventLast(at) ==
    CASE at = "receive" -> "derive"
      [] at = "derive" -> "range"
      [] at = "rangeEnd" -> "sendEvent"
      [] OTHER -> "select"

\* the order of the body of `case event := <-in`: where the worker goes
\* after each of its steps
DeriveStep(at) ==
    CASE at = "receive" -> "sendEvent"
      [] at = "sendEvent" -> "derive"
      [] at = "derive" -> "range"
      [] OTHER -> "select"

\* the switch of the range loop: the ids that skip shouldProcessEvent
FilterExempt(id) == id \in {SymbolsLoaded, SharedObjectLoaded, PrintMemDump}

\* case event := <-in, an event received: eventCopy := *event
DeriveReceive ==
    /\ pc["derive"] = "select"
    /\ chans["process"] # <<>>
    /\ LET ref == Head(chans["process"])
       IN  /\ local' = [local EXCEPT !["derive"] = ref]
           /\ eventCopy' = heap[ref.a]
    /\ chans' = [chans EXCEPT !["process"] = Tail(@)]
    /\ pc' = [pc EXCEPT !["derive"] = DeriveStep("receive")]
    /\ UNCHANGED <<cancelled, cacheEnabled, closed, heap, fifo, done,
                   derivatives, drvIdx, derivative, ChanEvents, stats, hist,
                   sinkSawDone, waitDone, stack, sinkId, merge, filt>>

\* case event := <-in on a closed and drained `in`: event is nil and
\* eventCopy := *event dereferences it; the panic ends the process, and
\* with it every goroutine
DeriveNil ==
    /\ pc["derive"] = "select"
    /\ chans["process"] = <<>>
    /\ closed["process"]
    /\ pc' = [w \in Workers |-> "crashed"]
    /\ UNCHANGED <<cancelled, cacheEnabled, chans, closed, local, heap, fifo,
                   done, eventCopy, derivatives, drvIdx, derivative,
                   ChanEvents, stats, hist, sinkSawDone, waitDone, stack,
                   sinkId, merge, filt>>

\* case <-ctx.Done(): return, with the deferred closes
DeriveCancel ==
    /\ pc["derive"] = "select"
    /\ cancelled
    /\ pc' = [pc EXCEPT !["derive"] = "done"]
    /\ closed' = [closed EXCEPT !["derive"] = TRUE]
    /\ UNCHANGED <<cancelled, cacheEnabled, chans, local, heap, fifo, done,
                   eventCopy, derivatives, drvIdx, derivative, ChanEvents,
                   stats, hist, sinkSawDone, waitDone, stack, sinkId, merge,
                   filt>>

\* out <- event, received by sinkEvents
DeriveSendEvent ==
    /\ pc["derive"] = "sendEvent"
    /\ pc["sink"] = "recv"
    /\ LET next == DeriveStep("sendEvent")
       IN  /\ pc' = [pc EXCEPT !["derive"] = next, !["sink"] = "mask"]
           /\ local' = [local EXCEPT !["sink"] = local["derive"],
                                     !["derive"] = IF next = "select" THEN NilRef ELSE @]
           /\ IF next = "select"
              THEN eventCopy' = NoEvent /\ derivatives' = <<>> /\ drvIdx' = 0
              ELSE UNCHANGED <<eventCopy, derivatives, drvIdx>>
           \* a range loop to come has a loop variable of its own
           /\ derivative' = IF next = "select" THEN derivative ELSE NoEvent
    /\ UNCHANGED <<cancelled, cacheEnabled, chans, closed, heap, fifo, done,
                   ChanEvents, stats, hist, sinkSawDone, waitDone, stack,
                   sinkId, merge, filt>>

\* DeriveEvent given the event the pointer leads to, not the copy
DeriveInputShared == Deref(local["derive"])

\* the argument of DeriveEvent: the copy taken before the event was sent on
DeriveInput == eventCopy

\* derivatives, errors := DeriveEvent(eventCopy), and the errors handled
DeriveDerive ==
    /\ pc["derive"] = "derive"
    /\ LET d == DeriveEvent(DeriveInput)
       IN  /\ derivatives' = d.derivatives
           /\ stats' = handleError(d.errors)
           /\ hist' = [hist EXCEPT !.derived = @ + Len(d.derivatives)]
    /\ drvIdx' = 1
    /\ pc' = [pc EXCEPT !["derive"] = DeriveStep("derive")]
    /\ UNCHANGED <<cancelled, cacheEnabled, chans, closed, local, heap, fifo,
                   done, eventCopy, derivative, ChanEvents, sinkSawDone,
                   waitDone, stack, sinkId, merge, filt>>

\* for _, derivative := range derivatives: the next element is assigned to
\* the loop variable, or the loop ends
DeriveRange ==
    /\ pc["derive"] = "range"
    /\ IF drvIdx <= Len(derivatives)
       THEN /\ derivative' = derivatives[drvIdx]
            /\ pc' = [pc EXCEPT !["derive"] = "filter"]
            /\ UNCHANGED <<derivatives, drvIdx, eventCopy, local>>
       ELSE LET next == DeriveStep("rangeEnd")
            IN  /\ pc' = [pc EXCEPT !["derive"] = next]
                /\ IF next = "select"
                   THEN /\ derivatives' = <<>>
                        /\ drvIdx' = 0
                        /\ eventCopy' = NoEvent
                        /\ local' = [local EXCEPT !["derive"] = NilRef]
                   ELSE UNCHANGED <<derivatives, drvIdx, eventCopy, local>>
                /\ UNCHANGED derivative
    /\ UNCHANGED <<cancelled, cacheEnabled, chans, closed, heap, fifo, done,
                   ChanEvents, stats, hist, sinkSawDone, waitDone, stack,
                   sinkId, merge, filt>>

\* the switch on derivative.EventID and shouldProcessEvent(&derivative)
DeriveFilter ==
    /\ pc["derive"] = "filter"
    /\ IF FilterExempt(derivative.EventID)
       THEN /\ pc' = [pc EXCEPT !["derive"] = "sendDerivative"]
            /\ UNCHANGED <<derivative, stats, drvIdx>>
       ELSE LET r == shouldProcessEvent(derivative)
            IN  /\ derivative' = r.event
                /\ IF r.ok
                   THEN /\ pc' = [pc EXCEPT !["derive"] = "sendDerivative"]
                        /\ UNCHANGED <<stats, drvIdx>>
                   ELSE /\ stats' = EventsFilteredIncrement(stats)
                        /\ drvIdx' = drvIdx + 1
                        /\ pc' = [pc EXCEPT !["derive"] = "range"]
    /\ UNCHANGED <<cancelled, cacheEnabled, chans, closed, local, heap, fifo,
                   done, eventCopy, derivatives, ChanEvents, hist,
                   sinkSawDone, waitDone, stack, sinkId, merge, filt>>

\* out <- &derivative, received by sinkEvents
DeriveSendDerivative ==
    /\ pc["derive"] = "sendDerivative"
    /\ pc["sink"] = "recv"
    /\ local' = [local EXCEPT !["sink"] = DvRef]
    /\ drvIdx' = drvIdx + 1
    /\ pc' = [pc EXCEPT !["derive"] = "range", !["sink"] = "mask"]
    /\ hist' = [hist EXCEPT !.sentDv = derivative]
    /\ UNCHANGED <<cancelled, cacheEnabled, chans, closed, heap, fifo, done,
                   eventCopy, derivatives, derivative, ChanEvents, stats,
                   sinkSawDone, waitDone, stack, sinkId, merge, filt>>

deriveEvents ==
    \/ DeriveReceive \/ DeriveNil \/ DeriveCancel \/ DeriveSendEvent
    \/ DeriveDerive \/ DeriveRange \/ DeriveFilter \/ DeriveSendDerivative

(***************************************************************************)
(* sinkEvents                                                              *)
(***************************************************************************)
\* the heap once the last pointer to a decoded event is gone
Release(ref) == IF ref.k = "orig" THEN [heap EXCEPT ![ref.a] = NoEvent] ELSE heap

\* event.MatchedScopes &= t.events[id].emit
EmitMasked(event, id) == [event EXCEPT !.MatchedScopes = @ \cap emit[id]]

\* id := events.ID(event.EventID), read through the pointer
SinkReadId ==
    /\ pc["sink"] = "mask"
    /\ sinkId' = Deref(local["sink"]).EventID
    /\ pc' = [pc EXCEPT !["sink"] = "and"]
    /\ UNCHANGED <<cancelled, cacheEnabled, chans, closed, local, heap, fifo,
                   done, eventCopy, derivatives, drvIdx, derivative,
                   ChanEvents, stats, hist, sinkSawDone, waitDone, stack,
                   merge, filt>>

\* the rest of the body of the range loop up to the select: the emit mask
\* through the pointer, the drop of an event left with no scope,
\* parseArguments
SinkMask ==
    /\ pc["sink"] = "and"
    /\ LET ref == local["sink"]
           e == EmitMasked(Deref(ref), sinkId)
       IN  /\ IF ref.k = "dv"
              THEN derivative' = e /\ UNCHANGED heap
              ELSE /\ heap' = [heap EXCEPT ![ref.a] =
                                  IF e.MatchedScopes = {} THEN NoEvent ELSE e]
                   /\ UNCHANGED derivative
           /\ IF e.MatchedScopes = {}
              THEN /\ pc' = [pc EXCEPT !["sink"] = "recv"]
                   /\ local' = [local EXCEPT !["sink"] = NilRef]
                   /\ hist' = [hist EXCEPT !.emitDrops = @ + 1, !.sentDv = NoEvent]
                   /\ UNCHANGED stats
              ELSE /\ pc' = [pc EXCEPT !["sink"] = "send"]
                   /\ stats' = handleError(IF e.parseErr THEN 1 ELSE 0)
                   /\ UNCHANGED <<local, hist>>
    \* id is not read again
    /\ sinkId' = "none"
    /\ UNCHANGED <<cancelled, cacheEnabled, chans, closed, fifo, done,
                   eventCopy, derivatives, drvIdx, ChanEvents, sinkSawDone,
                   waitDone, stack, merge, filt>>

\* select { case t.config.ChanEvents <- *event: EventCount.Increment() }
SinkSend ==
    /\ pc["sink"] = "send"
    /\ ChanEvents' = Append(ChanEvents, Deref(local["sink"]))
    /\ stats' = [stats EXCEPT !.EventCount = @ + 1]
    /\ pc' = [pc EXCEPT !["sink"] = "recv"]
    /\ local' = [local EXCEPT !["sink"] = NilRef]
    /\ heap' = Release(local["sink"])
    /\ hist' = [hist EXCEPT !.sentDv = NoEvent]
    /\ UNCHANGED <<cancelled, cacheEnabled, chans, closed, fifo, done,
                   eventCopy, derivatives, drvIdx, derivative, sinkSawDone,
                   waitDone, stack, sinkId, merge, filt>>

\* a `break` in the <-ctx.Done() case: it leaves the select, not the loop
SinkOnDoneBreak == "recv"

\* what the <-ctx.Done() case of the select does: return
SinkOnDone == "done"

\* select { case <-ctx.Done(): return }, with the deferred close
SinkCancel ==
    /\ pc["sink"] = "send"
    /\ cancelled
    /\ pc' = [pc EXCEPT !["sink"] = SinkOnDone]
    /\ local' = [local EXCEPT !["sink"] = NilRef]
    /\ heap' = Release(local["sink"])
    /\ sinkSawDone' = TRUE
    /\ hist' = [hist EXCEPT !.sentDv = NoEvent]
    /\ UNCHANGED <<cancelled, cacheEnabled, chans, closed, fifo, done,
                   eventCopy, derivatives, drvIdx, derivative, ChanEvents,
                   stats, waitDone, stack, sinkId, merge, filt>>

\* the range loop ends: `in` is closed
SinkClosed ==
    /\ pc["sink"] = "recv"
    /\ closed["derive"]
    /\ pc' = [pc EXCEPT !["sink"] = "done"]
    /\ UNCHANGED <<cancelled, cacheEnabled, chans, closed, local, heap, fifo,
                   done, eventCopy, derivatives, drvIdx, derivative,
                   ChanEvents, stats, hist, sinkSawDone, waitDone, stack,
                   sinkId, merge, filt>>

sinkEvents == SinkReadId \/ SinkMask \/ SinkSend \/ SinkCancel \/ SinkClosed

(***************************************************************************)
(* WaitForPipeline over MergeErrors: no stage sends on its error channel,  *)
(* so the merged channel closes, and WaitForPipeline returns, once every   *)
(* stage has closed its own.                                               *)
(***************************************************************************)
\* the workers whose return closes an error channel of errcList
ErrcOwners ==
    {"decode", "process", "derive", "sink"}
        \cup (IF cacheEnabled THEN {"queueOut"} ELSE {})

WaitForPipeline ==
    /\ ~waitDone
    /\ \A w \in ErrcOwners : pc[w] = "done"
    /\ waitDone' = TRUE
    /\ UNCHANGED <<cancelled, cacheEnabled, chans, closed, pc, local, heap,
                   fifo, done, eventCopy, derivatives, drvIdx, derivative,
                   ChanEvents, stats, hist, sinkSawDone, stack, sinkId, merge,
                   filt>>

\* a nil dereference has ended the process
Panicked == pc["derive"] = "crashed"

\* a step of the pipeline's goroutines
WorkerStep ==
    \/ decodeEvents \/ queueEvents \/ processEvents
    \/ deriveEvents \/ sinkEvents \/ WaitForPipeline

Next ==
    \/ SourceSend \/ SourceClose \/ Cancel
    \/ DecodeReceive \/ DecodeSend \/ DecodeCancel \/ DecodeClosed
    \/ QueueInReceive \/ QueueInNil \/ QueueInEnqueue \/ QueueInCancel
    \/ QueueOutDefault \/ QueueOutDequeue \/ QueueOutSend \/ QueueOutDone
    \/ ProcessReceive \/ ProcessSend \/ ProcessCancel \/ ProcessClosed
    \/ DeriveReceive \/ DeriveNil \/ DeriveCancel \/ DeriveSendEvent
    \/ DeriveDerive \/ DeriveRange \/ DeriveFilter \/ DeriveSendDerivative
    \/ SinkReadId \/ SinkMask \/ SinkSend \/ SinkCancel \/ SinkClosed
    \/ WaitForPipeline

Spec == Init /\ [][Next]_vars

(***************************************************************************)
(* getStackAddresses, one loop iteration a step.  A stack-table value is   *)
(* the sequence of its native-width words (strconv.IntSize = 64).          *)
(***************************************************************************)
\* the words 1, 2, ..., n
Words(n) == [k \in 1..n |-> k]

\* the values t.StackAddressesMap may hold for a stack id: a run of
\* non-zero words, then nothing, a zero word, or a zero word and a stale one
StackValues ==
    {Words(n) \o tail : n \in 0..MaxStackWords, tail \in {<<>>, <<0>>, <<0, 7>>}}

\* getStackAddresses is entered: StackAddresses := make([]uint64, maxStackDepth)
\* and the lookup of the stack id, which may have aged out (found = FALSE)
StackCalls ==
    {[NoStackCall EXCEPT !.pc = "lookup", !.found = f, !.stackBytes = v,
                         !.StackAddresses = [k \in 1..maxStackDepth |-> 0]] :
        f \in BOOLEAN, v \in StackValues}

\* if err != nil { return StackAddresses[0:0], nil }, else enter the loop
StackLookup ==
    /\ stack.pc = "lookup"
    /\ stack' = IF stack.found
                THEN [stack EXCEPT !.pc = "loop", !.i = 1]
                ELSE [stack EXCEPT !.pc = "returned", !.result = <<>>]
    /\ UNCHANGED <<cancelled, cacheEnabled, chans, closed, pc, local, heap,
                   fifo, done, eventCopy, derivatives, drvIdx, derivative,
                   ChanEvents, stats, hist, sinkSawDone, waitDone, sinkId,
                   merge, filt>>

\* one iteration of `for i := 0; i < len(stackBytes); i += stackFrameSize`:
\* StackAddresses[stackCounter] = 0 indexes a slice of maxStackDepth
\* elements and panics beyond it
StackLoop ==
    /\ stack.pc = "loop"
    /\ stack.i <= Len(stack.stackBytes)
    /\ LET stackAddr == stack.stackBytes[stack.i]
           slot == stack.stackCounter + 1
       IN  stack' =
             IF stack.stackCounter >= maxStackDepth
             THEN [stack EXCEPT !.pc = "panic"]
             ELSE IF stackAddr = 0
                  THEN [stack EXCEPT !.pc = "return", !.StackAddresses[slot] = 0]
                  ELSE [stack EXCEPT !.StackAddresses[slot] = stackAddr,
                                     !.stackCounter = @ + 1, !.i = @ + 1]
    /\ UNCHANGED <<cancelled, cacheEnabled, chans, closed, pc, local, heap,
                   fifo, done, eventCopy, derivatives, drvIdx, derivative,
                   ChanEvents, stats, hist, sinkSawDone, waitDone, sinkId,
                   merge, filt>>

\* the loop ends with the value, or after its break: DeleteKey, and
\* return StackAddresses[0:stackCounter], nil
StackReturn ==
    /\ \/ stack.pc = "return"
       \/ stack.pc = "loop" /\ stack.i > Len(stack.stackBytes)
    /\ stack' = [stack EXCEPT
                    !.pc = "returned",
                    !.result = SubSeq(stack.StackAddresses, 1, stack.stackCounter)]
    /\ UNCHANGED <<cancelled, cacheEnabled, chans, closed, pc, local, heap,
                   fifo, done, eventCopy, derivatives, drvIdx, derivative,
                   ChanEvents, stats, hist, sinkSawDone, waitDone, sinkId,
                   merge, filt>>

getStackAddresses == StackLookup \/ StackLoop \/ StackReturn

\* calls of getStackAddresses on every stack-table value
StackInit ==
    /\ PipelineInit
    /\ stack \in StackCalls
    /\ filt = NoFilterCall
    /\ merge = NoMerge

StackNext == StackLookup \/ StackLoop \/ StackReturn

StackSpec == StackInit /\ [][StackNext]_vars

(***************************************************************************)
(* shouldProcessEvent on its own: applied to an event, then to the event   *)
(* it left behind.                                                         *)
(***************************************************************************)
\* a bit no configured scope owns
ScopeUnconfigured == 3

\* the events shouldProcessEvent may be given: every combination of the
\* fields the filters read, with any bitmap over the three configured
\* scopes and an unconfigured one
FilterEvents ==
    {[NewEvent(BaseRecord, 1) EXCEPT
            !.EventID = id, !.MatchedScopes = ms, !.orig = ms,
            !.HostProcessID = pid, !.UserID = uid, !.ProcessName = comm,
            !.ReturnValue = ret, !.Args = args] :
        id \in {Execve, ContainerCreate},
        ms \in SUBSET (FilterScopes \cup {ScopeUnconfigured}),
        pid \in {50, 150, 503000},
        uid \in {500, 1000},
        comm \in {"who", "ls"},
        ret \in {0, -1},
        args \in {<<"ok">>, <<"deny">>}}

FilterCalls == {[NoFilterCall EXCEPT !.pc = "call", !.event = e] : e \in FilterEvents}

\* shouldProcessEvent(&evt)
FilterOnce ==
    /\ filt.pc = "call"
    /\ LET r == shouldProcessEvent(filt.event)
       IN  filt' = [filt EXCEPT !.pc = "again", !.once = r.event, !.okOnce = r.ok]
    /\ UNCHANGED <<cancelled, cacheEnabled, chans, closed, pc, local, heap,
                   fifo, done, eventCopy, derivatives, drvIdx, derivative,
                   ChanEvents, stats, hist, sinkSawDone, waitDone, stack,
                   sinkId, merge>>

\* shouldProcessEvent(&evt) a second time, on the event the first call left
FilterTwice ==
    /\ filt.pc = "again"
    /\ LET r == shouldProcessEvent(filt.once)
       IN  filt' = [filt EXCEPT !.pc = "returned", !.twice = r.event, !.okTwice = r.ok]
    /\ UNCHANGED <<cancelled, cacheEnabled, chans, closed, pc, local, heap,
                   fifo, done, eventCopy, derivatives, drvIdx, derivative,
                   ChanEvents, stats, hist, sinkSawDone, waitDone, stack,
                   sinkId, merge>>

FilterInit ==
    /\ PipelineInit
    /\ stack = NoStackCall
    /\ filt \in FilterCalls
    /\ merge = NoMerge

FilterNext == FilterOnce \/ FilterTwice

FilterSpec == FilterInit /\ [][FilterNext]_vars

(***************************************************************************)
(* MergeErrors and WaitForPipeline on error channels that carry errors.    *)
(* An error is <<c, k>>: the k-th error its owner sent on channel c.       *)
(***************************************************************************)
ErrChans == 1..MaxErrChans

\* a merged channel one slot short of the number of inputs
MergeCapacityShort == MaxErrChans - 1

\* out := make(chan error, len(cs))
MergeCapacity == MaxErrChans

\* MergeErrors(cs...) has returned `out`: every output goroutine is at its
\* range, wg counts them all, WaitForPipeline is at its range
MergeStart ==
    [on |-> TRUE,
     cs |-> [c \in ErrChans |-> <<>>],
     csClosed |-> [c \in ErrChans |-> FALSE],
     produced |-> [c \in ErrChans |-> 0],
     output |-> [c \in ErrChans |-> [pc |-> "range", n |-> <<>>]],
     wg |-> MaxErrChans,
     out |-> <<>>,
     outClosed |-> FALSE,
     reader |-> "range",
     handled |-> <<>>]

\* the owner of an error channel (make(chan error, 1)) sends an error
ErrSend(c) ==
    /\ merge.on
    /\ ~merge.csClosed[c]
    /\ merge.produced[c] < MaxErrsPerChan
    /\ Len(merge.cs[c]) < 1
    /\ merge' = [merge EXCEPT !.cs[c] = Append(@, <<c, merge.produced[c] + 1>>),
                              !.produced[c] = @ + 1]
    /\ UNCHANGED <<cancelled, cacheEnabled, chans, closed, pc, local, heap,
                   fifo, done, eventCopy, derivatives, drvIdx, derivative,
                   ChanEvents, stats, hist, sinkSawDone, waitDone, stack,
                   sinkId, filt>>

\* the owner of an error channel closes it (defer close(errc))
ErrClose(c) ==
    /\ merge.on
    /\ ~merge.csClosed[c]
    /\ merge' = [merge EXCEPT !.csClosed[c] = TRUE]
    /\ UNCHANGED <<cancelled, cacheEnabled, chans, closed, pc, local, heap,
                   fifo, done, eventCopy, derivatives, drvIdx, derivative,
                   ChanEvents, stats, hist, sinkSawDone, waitDone, stack,
                   sinkId, filt>>

\* output: for n := range c, an error received
OutputReceive(c) ==
    /\ merge.on
    /\ merge.output[c].pc = "range"
    /\ merge.cs[c] # <<>>
    /\ merge' = [merge EXCEPT !.output[c] = [pc |-> "send", n |-> Head(merge.cs[c])],
                              !.cs[c] = Tail(@)]
    /\ UNCHANGED <<cancelled, cacheEnabled, chans, closed, pc, local, heap,
                   fifo, done, eventCopy, derivatives, drvIdx, derivative,
                   ChanEvents, stats, hist, sinkSawDone, waitDone, stack,
                   sinkId, filt>>

\* output: out <- n
OutputSend(c) ==
    /\ merge.on
    /\ merge.output[c].pc = "send"
    /\ Len(merge.out) < MergeCapacity
    /\ merge' = [merge EXCEPT !.out = Append(@, merge.output[c].n),
                              !.output[c] = [pc |-> "range", n |-> <<>>]]
    /\ UNCHANGED <<cancelled, cacheEnabled, chans, closed, pc, local, heap,
                   fifo, done, eventCopy, derivatives, drvIdx, derivative,
                   ChanEvents, stats, hist, sinkSawDone, waitDone, stack,
                   sinkId, filt>>

\* output: the range ends on the closed and drained c; wg.Done()
OutputDone(c) ==
    /\ merge.on
    /\ merge.output[c].pc = "range"
    /\ merge.cs[c] = <<>>
    /\ merge.csClosed[c]
    /\ merge' = [merge EXCEPT !.output[c] = [pc |-> "done", n |-> <<>>],
                              !.wg = @ - 1]
    /\ UNCHANGED <<cancelled, cacheEnabled, chans, closed, pc, local, heap,
                   fifo, done, eventCopy, derivatives, drvIdx, derivative,
                   ChanEvents, stats, hist, sinkSawDone, waitDone, stack,
                   sinkId, filt>>

\* the closing goroutine: wg.Wait(); close(out)
MergeClose ==
    /\ merge.on
    /\ merge.wg = 0
    /\ ~merge.outClosed
    /\ merge' = [merge EXCEPT !.outClosed = TRUE]
    /\ UNCHANGED <<cancelled, cacheEnabled, chans, closed, pc, local, heap,
                   fifo, done, eventCopy, derivatives, drvIdx, derivative,
                   ChanEvents, stats, hist, sinkSawDone, waitDone, stack,
                   sinkId, filt>>

\* WaitForPipeline: for err := range errc { t.handleError(err) }
WaitReceive ==
    /\ merge.on
    /\ merge.reader = "range"
    /\ merge.out # <<>>
    /\ merge' = [merge EXCEPT !.out = Tail(@), !.handled = Append(@, Head(merge.out))]
    /\ stats' = handleError(1)
    /\ UNCHANGED <<cancelled, cacheEnabled, chans, closed, pc, local, heap,
                   fifo, done, eventCopy, derivatives, drvIdx, derivative,
                   ChanEvents, hist, sinkSawDone, waitDone, stack, sinkId,
                   filt>>

\* WaitForPipeline: the range ends on the closed and drained errc; return nil
WaitReturn ==
    /\ merge.on
    /\ merge.reader = "range"
    /\ merge.out = <<>>
    /\ merge.outClosed
    /\ merge' = [merge EXCEPT !.reader = "returned"]
    /\ UNCHANGED <<cancelled, cacheEnabled, chans, closed, pc, local, heap,
                   fifo, done, eventCopy, derivatives, drvIdx, derivative,
                   ChanEvents, stats, hist, sinkSawDone, waitDone, stack,
                   sinkId, filt>>

\* the reader of the merged channel stops reading before it is closed
WaitStopsEarly ==
    /\ merge.on
    /\ merge.reader = "range"
    /\ merge' = [merge EXCEPT !.reader = "stopped"]
    /\ UNCHANGED <<cancelled, cacheEnabled, chans, closed, pc, local, heap,
                   fifo, done, eventCopy, derivatives, drvIdx, derivative,
                   ChanEvents, stats, hist, sinkSawDone, waitDone, stack,
                   sinkId, filt>>

MergeErrors ==
    \E c \in ErrChans :
        \/ OutputReceive(c) \/ OutputSend(c) \/ OutputDone(c)

MergeInit ==
    /\ PipelineInit
    /\ stack = NoStackCall
    /\ filt = NoFilterCall
    /\ merge = MergeStart

MergeNext ==
    \/ \E c \in ErrChans : ErrSend(c)
    \/ \E c \in ErrChans : ErrClose(c)
    \/ \E c \in ErrChans : OutputReceive(c)
    \/ \E c \in ErrChans : OutputSend(c)
    \/ \E c \in ErrChans : OutputDone(c)
    \/ MergeClose
    \/ WaitReceive
    \/ WaitReturn
    \/ WaitStopsEarly

MergeSpec == MergeInit /\ [][MergeNext]_vars

(***************************************************************************)
(* Properties.                                                             *)
(***************************************************************************)
Delivered == {ChanEvents[i] : i \in 1..Len(ChanEvents)}

\* no event is in flight: the inter-stage channels and the FIFO are empty
\* and every worker stands at the head of its loop, or has returned
Quiescent ==
    /\ chans["decode"] = <<>> /\ chans["queue"] = <<>> /\ chans["process"] = <<>>
    /\ fifo = <<>>
    /\ pc["decode"] \in {"recv", "done"}
    /\ pc["queueIn"] \in {"select", "done", "off"}
    /\ pc["queueOut"] \in {"select", "dequeue", "done", "off"}
    /\ pc["process"] \in {"recv", "done"}
    /\ pc["derive"] \in {"select", "done"}
    /\ pc["sink"] \in {"recv", "done"}

AllReturned == \A w \in Workers : pc[w] \in {"done", "off"}

\* C1: every delivered event carries only bits it entered the pipeline
\* with (the kernel's bitmap, or the bitmap its deriver gave it): the
\* stages clear bits and never set one.
C1_ScopesOnlyCleared ==
    \A e \in Delivered : e.MatchedScopes \subseteq e.orig

\* C1 witness: a delivered event that has lost a bit on the way
C1_Witness ==
    \E e \in Delivered : e.MatchedScopes # e.orig /\ e.MatchedScopes # {}

\* C2: in every delivered event, the bit of every configured scope that
\* rejects the event (context, return value, arguments, UID range, PID
\* range) is clear.
C2_RefinementReachesOutput ==
    \A e \in Delivered :
        \A s \in FilterScopes : ScopeRejects(s, e) => s \notin e.MatchedScopes

\* C3 as stated: with nothing in flight and no cancellation, the three
\* counters add up to the records consumed.
C3_CountersMatchRecords ==
    (Quiescent /\ ~cancelled) =>
        stats.EventCount + stats.EventsFiltered + stats.ErrorCount = hist.consumed

\* C3 amended: with nothing in flight and no cancellation, every record
\* consumed and every derivative produced is accounted for exactly once as
\* delivered (EventCount), rejected by shouldProcessEvent (EventsFiltered),
\* dropped on a decode or side-effect error, dropped as a false container
\* positive, or dropped by the emit mask; EventCount is the number of
\* events delivered and ErrorCount is at least the number of error drops.
C3_EveryEventAccounted ==
    (Quiescent /\ ~cancelled) =>
        /\ stats.EventCount + stats.EventsFiltered + hist.errDrops
              + hist.containerDrops + hist.emitDrops
           = hist.consumed + hist.derived
        /\ stats.EventCount = Len(ChanEvents)
        /\ stats.ErrorCount >= hist.errDrops

\* C3 witness: a quiescent state after two records, with a rejection, a
\* derivative and an emit-mask drop behind it
C3_Witness ==
    /\ Quiescent /\ ~cancelled
    /\ hist.consumed = 2
    /\ stats.EventsFiltered >= 1 /\ hist.derived >= 1 /\ hist.emitDrops >= 1

\* C4: every event decodeEvents has built to send downstream has as many
\* decoded arguments as its header announced.
C4_ArgsComplete ==
    \A a \in 1..MaxRecords :
        heap[a] # NoEvent => Len(heap[a].Args) = heap[a].ArgsNum

\* C5: once the context is cancelled and no goroutine of the pipeline can
\* take a step any more, every worker has returned and WaitForPipeline too.
C5_CancellationTerminates ==
    (cancelled /\ ~ENABLED WorkerStep) => (AllReturned /\ waitDone)

\* C6 as stated: after the cancellation, nothing more is sent on the output
\* channel and EventCount does not change.
C6_NoOutputAfterCancel ==
    [][cancelled => (ChanEvents' = ChanEvents /\ stats'.EventCount = stats.EventCount)]_vars

\* C6 amended: once sinkEvents has taken the <-ctx.Done() case of its
\* select, nothing more is sent on the output channel and EventCount does
\* not change.
C6_NoOutputAfterSinkSawDone ==
    [][sinkSawDone => (ChanEvents' = ChanEvents /\ stats'.EventCount = stats.EventCount)]_vars

\* C6 witness: the sink has delivered an event and then taken the
\* cancellation case with another event in hand
C6_Witness == sinkSawDone /\ ChanEvents # <<>>

\* C7: on the output channel a derivative comes after the event it was
\* derived from, whenever both are delivered.
C7_ParentBeforeDerivative ==
    \A i, j \in 1..Len(ChanEvents) :
        (/\ ChanEvents[i].rec = ChanEvents[j].rec
         /\ ChanEvents[i].der = 0
         /\ ChanEvents[j].der > 0) => i < j

\* C7 witness: an event and one of its derivatives are both delivered
C7_Witness ==
    \E i, j \in 1..Len(ChanEvents) :
        /\ ChanEvents[i].rec = ChanEvents[j].rec
        /\ ChanEvents[i].der = 0
        /\ ChanEvents[j].der > 0

\* the events the queue stage holds, oldest first
QueueHolds ==
    chans["queue"]
        \o (IF pc["queueOut"] = "send" THEN <<local["queueOut"]>> ELSE <<>>)
        \o fifo
        \o (IF pc["queueIn"] = "enqueue" THEN <<local["queueIn"]>> ELSE <<>>)

\* C9: with the queue stage on and no cancellation, the events queueEvents
\* has received are, in order and each once, those it has passed on
\* followed by those it still holds; the FIFO never exceeds its capacity
\* (a full FIFO holds the draining-in worker at Enqueue), and while the
\* stage holds an event some worker of the pipeline can take a step.
C9_QueueLosesNothing ==
    (cacheEnabled /\ ~cancelled) =>
        /\ hist.queued = hist.processed \o QueueHolds
        /\ Len(fifo) <= QueueCap
        /\ QueueHolds # <<>> => ENABLED WorkerStep

\* C9 witness: the draining-in worker holds an event at Enqueue while the
\* FIFO is full
C9_Witness ==
    /\ cacheEnabled /\ ~cancelled
    /\ pc["queueIn"] = "enqueue"
    /\ Len(fifo) = QueueCap

\* C10: every delivered event has a non-empty MatchedScopes within the
\* emit mask of its event id, and EventCount is the number of events sent.
C10_SinkMaskAndCount ==
    /\ \A e \in Delivered :
          e.MatchedScopes # {} /\ e.MatchedScopes \subseteq emit[e.EventID]
    /\ stats.EventCount = Len(ChanEvents)

C12_ShouldProcessIdempotent ==
    filt.pc = "returned" =>
        /\ filt.twice.MatchedScopes = filt.once.MatchedScopes
        /\ filt.okTwice = filt.okOnce

\* C12 witness: both calls have returned, the first one having cleared a bit
\* and kept another
C12_Witness ==
    /\ filt.pc = "returned"
    /\ filt.once.MatchedScopes # filt.event.MatchedScopes
    /\ filt.okOnce

\* C13: when the draining-out worker of queueEvents has returned, the
\* draining-in worker has returned before it and the FIFO is empty.
C13_QueueDrainsBeforeStop ==
    pc["queueOut"] = "done" => (pc["queueIn"] = "done" /\ fifo = <<>>)

\* C14: no stage takes the nil it receives from its closed and drained
\* input channel for an event: the deriver never dereferences it, the
\* draining-in worker of the queue never goes round its loop on it, and a
\* stage whose input is closed and drained while it waits for input has
\* returned and closed its output once no worker can take a step.
C14_ClosurePropagates ==
    /\ ~Panicked
    /\ ~hist.nilSpins
    /\ (closed["decode"] /\ ~ENABLED WorkerStep) => AllReturned

\* C15: when processEvents takes an event whose side effects raise no
\* error: if its ContainerID is empty and it is neither cgroup_mkdir nor
\* cgroup_rmdir, exactly the bits of the scopes with a container filter are
\* cleared, and the event is dropped if no bit is left and goes to the
\* send otherwise; any other event goes to the send as it came.
C15_FalseContainerPositive ==
    [][(pc["process"] = "recv" /\ hist'.processed # hist.processed) =>
          LET ref == Head(chans[ProcessIn])
              e == heap[ref.a]
              cleared == e.MatchedScopes \ ContainerFilterEnabled
              forwarded == pc'["process"] = "send" /\ local'["process"] = ref
              droppedNow == pc'["process"] = "recv" /\ heap'[ref.a] = NoEvent
          IN  e.sideErrs = 0 =>
                IF e.ContainerID = "" /\ e.EventID \notin {CgroupMkdir, CgroupRmdir}
                THEN IF cleared = {}
                     THEN droppedNow
                     ELSE /\ forwarded
                          /\ heap'[ref.a] = [e EXCEPT !.MatchedScopes = cleared]
                ELSE forwarded /\ heap'[ref.a] = e
      ]_vars

\* C15 witness: processEvents stands at its send with an event without
\* ContainerID that has lost the bit of the container scope and kept another
C15_Witness ==
    /\ pc["process"] = "send"
    /\ LET e == heap[local["process"].a]
       IN  /\ e.ContainerID = "" /\ e.EventID = Execve
           /\ e.orig \cap ContainerFilterEnabled # {}
           /\ e.MatchedScopes = e.orig \ ContainerFilterEnabled

\* C16: when deriveEvents decides on a derivative: one of the three exempt
\* ids goes to the send with the MatchedScopes it was derived with and
\* EventsFiltered unchanged; any other goes to the send if and only if
\* shouldProcessEvent accepts it as derived, and a rejected one adds
\* exactly one to EventsFiltered and is not sent.
C16_DerivativeRefilter ==
    [][(pc["derive"] = "filter" /\ pc'["derive"] # "filter") =>
          LET d == derivatives[drvIdx]
              emitted == pc'["derive"] = "sendDerivative"
          IN  IF d.EventID \in {SymbolsLoaded, SharedObjectLoaded, PrintMemDump}
              THEN /\ emitted
                   /\ derivative'.MatchedScopes = d.MatchedScopes
                   /\ stats'.EventsFiltered = stats.EventsFiltered
              ELSE /\ emitted <=> shouldProcessEvent(d).ok
                   /\ stats'.EventsFiltered =
                         stats.EventsFiltered + (IF emitted THEN 0 ELSE 1)
      ]_vars

\* C17: when decodeEvents has decoded a record in full (header, known id,
\* every argument): if the id is no derivation base, the event goes to the
\* send, as shouldProcessEvent left it, if and only if shouldProcessEvent
\* accepts it, and a rejection adds one to EventsFiltered and leaves no
\* event; if the id is a derivation base, the event goes to the send with
\* the kernel's MatchedScopes and EventsFiltered is unchanged.
C17_FirstPassFilter ==
    [][(pc["decode"] = "recv" /\ hist'.consumed # hist.consumed) =>
          LET raw == Head(chans["source"])
              rec == hist'.consumed
              evt == NewEvent(raw, rec)
              r == shouldProcessEvent(evt)
              toSend == pc'["decode"] = "send" /\ local'["decode"] = OrigRef(rec)
          IN  (/\ raw.hdrOk
               /\ raw.EventID \in Definitions
               /\ \A i \in 1..Len(raw.argsBuf) : raw.argsBuf[i] # "bad") =>
                IF raw.EventID \in DOMAIN eventDerivations
                THEN /\ toSend
                     /\ heap'[rec] = evt
                     /\ stats'.EventsFiltered = stats.EventsFiltered
                ELSE IF r.ok
                     THEN /\ toSend
                          /\ heap'[rec] = r.event
                          /\ stats'.EventsFiltered = stats.EventsFiltered
                     ELSE /\ pc'["decode"] = "recv"
                          /\ heap'[rec] = NoEvent
                          /\ stats'.EventsFiltered = stats.EventsFiltered + 1
      ]_vars

\* C17 witness: a record has been rejected and counted, and decodeEvents
\* stands at its send with a derivation base that shouldProcessEvent
\* would reject
C17_Witness ==
    /\ stats.EventsFiltered >= 1
    /\ pc["decode"] = "send"
    /\ LET e == heap[local["decode"].a]
       IN  /\ e.EventID \in DOMAIN eventDerivations
           /\ ~shouldProcessEvent(e).ok
           /\ e.MatchedScopes = e.orig

Count(seq, x) == Cardinality({i \in 1..Len(seq) : seq[i] = x})

\* the error an output goroutine has received and not yet sent on
Held(c) == IF merge.output[c].pc = "send" THEN <<merge.output[c].n>> ELSE <<>>

\* C19: the merged channel is closed only once every input channel is
\* closed and drained and its output goroutine is done; every error sent
\* on an input is, exactly once, in that input, in the hand of its output
\* goroutine, in the merged channel or with the reader, and with the merged
\* channel closed it is in the merged channel or with the reader; and as
\* long as no input has carried more than one error, an output goroutine
\* that has an error to send finds room in the merged channel, whether or
\* not the reader still reads.
C19_MergeFanIn ==
    merge.on =>
        /\ merge.outClosed =>
              \A c \in ErrChans :
                  /\ merge.csClosed[c] /\ merge.cs[c] = <<>>
                  /\ merge.output[c].pc = "done"
        /\ \A c \in ErrChans : \A k \in 1..MaxErrsPerChan :
              LET err == <<c, k>>
                  forwarded == Count(merge.out, err) + Count(merge.handled, err)
                  onTheWay == Count(merge.cs[c], err) + Count(Held(c), err)
              IN  /\ forwarded + onTheWay = (IF k <= merge.produced[c] THEN 1 ELSE 0)
                  /\ merge.outClosed => onTheWay = 0
        /\ (\A c \in ErrChans : merge.produced[c] <= 1) =>
              \A c \in ErrChans :
                  merge.output[c].pc = "send" => Len(merge.out) < MergeCapacity

\* C19 witness: every input carried one error and is closed, the reader
\* stopped before reading any, and the merged channel, closed, holds them all
C19_Witness ==
    /\ merge.on
    /\ merge.reader = "stopped" /\ merge.handled = <<>>
    /\ \A c \in ErrChans : merge.produced[c] = 1
    /\ merge.outClosed
    /\ Len(merge.out) = MaxErrChans

\* C20: while the sink works on a derivative it has received, the event
\* behind its pointer is the derivative as it was sent (hist.sentDv), with
\* the sink's own emit mask applied once the sink has masked it, so that
\* the value it delivers is the derivative sent; and no derivative of a
\* record is delivered twice.
C20_DerivativesNotAliased ==
    /\ (local["sink"] = DvRef /\ pc["sink"] \in {"mask", "and", "send"}) =>
          LET sent == hist.sentDv
          IN  Deref(local["sink"]) =
                IF pc["sink"] = "send" THEN EmitMasked(sent, sent.EventID) ELSE sent
    /\ \A i, j \in 1..Len(ChanEvents) :
          (/\ i < j
           /\ ChanEvents[i].der > 0
           /\ ChanEvents[i].rec = ChanEvents[j].rec) =>
              ChanEvents[i].der # ChanEvents[j].der

\* the words of a stack-table value before its first zero word
RECURSIVE BeforeZero(_)
BeforeZero(ws) ==
    IF ws = <<>> \/ Head(ws) = 0 THEN <<>> ELSE <<Head(ws)>> \o BeforeZero(Tail(ws))

\* the first n elements of a sequence, all of it when it is shorter
Truncated(ws, n) == SubSeq(ws, 1, IF Len(ws) < n THEN Len(ws) ELSE n)

\* C8: getStackAddresses does not fail, and returns the words before the
\* first zero word, cut to maxStackDepth entries; nothing for a missing id.
C8_StackAddressesTruncated ==
    /\ stack.pc # "panic"
    /\ stack.pc = "returned" =>
          /\ stack.result =
                IF stack.found
                THEN Truncated(BeforeZero(stack.stackBytes), maxStackDepth)
                ELSE <<>>
          /\ Len(stack.result) <= maxStackDepth
          /\ \A k \in 1..Len(stack.result) : stack.result[k] # 0

====
